---- MODULE Spec2Model ----
(***************************************************************************)
(* Wildlife monitor: the Raspberry Pi controller (main_controller.py) and  *)
(* the web dashboard that lists the captures table (web_dashboard.py).     *)
(* The process loads the model, initialises the store, connects to the     *)
(* broker and then serves triggers from the MQTT message loop: on_message  *)
(* gates on the global is_processing flag and runs the pipeline            *)
(* record -> extract -> detect -> save -> notify -> cooldown -> release.   *)
(***************************************************************************)
EXTENDS Integers, Sequences, FiniteSets, TLC

VARIABLES
    mainpc,         \* position of __main__: "load_model", "init_db", "connect", "loop", "exited"
    model,          \* the global YOLO model: "none" | "loaded"
    db_init,        \* what init_db did: "none" | "ok" | "failed"
    subscribed,     \* on_connect subscribed to TRIGGER_TOPIC
    connack,        \* on_connect has been called
    is_processing,  \* the global processing lock
    inbox,          \* triggers published to the topic and not yet handed to on_message
    published,      \* number of triggers published so far
    workers,        \* the threads that call on_message
    pc,             \* per thread: position inside on_message
    run,            \* per thread: locals of the on_message invocation and what it has done
    captures,       \* the rows of the captures table
    files,          \* video artifacts on disk
    now,            \* wall clock, in seconds
    persisted,      \* number of runs that reached save_to_db
    listing,        \* web dashboard: what the last call of index() returned
    det_in,         \* run_animal_detection alone: the detections of the frame
    det_out         \* run_animal_detection alone: the value returned

vars == <<mainpc, model, db_init, subscribed, connack, is_processing, inbox, published,
          workers, pc, run, captures, files, now, persisted, listing,
          det_in, det_out>>

-----------------------------------------------------------------------------
(* Bounds *)

MaxTriggers == 2
MaxDets == 3
MaxConf == 2

(* Configuration *)

VIDEO_DURATION_MS == 10000
COOLDOWN_S == 10

CAPTURE_DIR == "/home/param/captures"

ANIMAL_CLASSES == {"bird", "cat", "dog", "horse", "sheep", "cow",
                   "elephant", "bear", "zebra", "giraffe"}

\* Class names the model can report for a box (model.names): two animals, one not.
Labels == {"dog", "cat", "person"}
Confs == 0..MaxConf

LoopThread == "loop"
OtherThread == "other"
Threads == {LoopThread, OtherThread}

-----------------------------------------------------------------------------
(* Python values *)

\* datetime.now().strftime(...) at clock reading t (seconds): the reading cut to
\* the fields of the format, which go down to the second.
strftime(t) ==
    [ day  |-> t \div 86400,
      hour |-> (t \div 3600) % 24,
      min  |-> (t \div 60) % 60,
      sec  |-> t % 60 ]

\* The clock reading a formatted time stands for.
Seconds(ts) == ((ts.day * 24 + ts.hour) * 60 + ts.min) * 60 + ts.sec

None == <<>>
Some(v) == <<v>>
The(o) == o[1]

\* A JSON object is a set of <<key, value>> pairs; dict.get(key) is None when absent.
Get(obj, k) ==
    LET m == {p \in obj : p[1] = k}
    IN  IF m = {} THEN None ELSE Some((CHOOSE p \in m : TRUE)[2])

\* Payload bytes, by what decode('utf-8') and json.loads make of them.
Malformed == [parses |-> FALSE, is_object |-> FALSE, fields |-> {}]
NonObject == [parses |-> TRUE, is_object |-> FALSE, fields |-> {}]
Object(f) == [parses |-> TRUE, is_object |-> TRUE, fields |-> f]

Payloads ==
    { Malformed,
      NonObject,
      Object({<<"temp", 21>>, <<"battery", 90>>}) }

\* str.capitalize() on the class names of the model.
Capitalize(s) ==
    CASE s = "dog" -> "Dog"
      [] s = "cat" -> "Cat"
      [] s = "person" -> "Person"
      [] OTHER -> s

Detection == [label : Labels, conf : Confs]

RECURSIVE SeqsUpTo(_, _)
SeqsUpTo(S, n) ==
    IF n = 0 THEN {<<>>}
    ELSE LET shorter == SeqsUpTo(S, n - 1)
         IN  shorter \cup {Append(s, x) : s \in {q \in shorter : Len(q) = n - 1}, x \in S}

DetLists == SeqsUpTo(Detection, MaxDets)

Box(l, c) == [label |-> l, conf |-> c]

\* The frames the pipeline is run on: nothing detected, no animal, an animal of
\* confidence 0.0, an animal next to a non-animal, two animals.
Frames ==
    { <<>>,
      <<Box("person", MaxConf)>>,
      <<Box("dog", 0)>>,
      <<Box("person", MaxConf), Box("dog", 1)>>,
      <<Box("dog", 1), Box("cat", MaxConf)>> }

-----------------------------------------------------------------------------
(* run_animal_detection: the loop over the boxes of the frame *)

DefaultDetection == [is_animal |-> FALSE, class |-> "False Positive", confidence |-> 0]

\* Variant: a later box of equal confidence replaces the earlier one.
DetectStepLastWins(best, box) ==
    IF box.label \in ANIMAL_CLASSES /\ box.conf >= best.confidence
    THEN [is_animal |-> TRUE, class |-> Capitalize(box.label), confidence |-> box.conf]
    ELSE best

DetectStep(best, box) ==
    IF box.label \in ANIMAL_CLASSES /\ box.conf > best.confidence
    THEN [is_animal |-> TRUE, class |-> Capitalize(box.label), confidence |-> box.conf]
    ELSE best

RECURSIVE DetectFrom(_, _)
DetectFrom(best, boxes) ==
    IF boxes = <<>> THEN best
    ELSE DetectFrom(DetectStep(best, Head(boxes)), Tail(boxes))

run_animal_detection(boxes) == DetectFrom(DefaultDetection, boxes)

-----------------------------------------------------------------------------
(* State of one on_message invocation *)

NoRun ==
    [ trig |-> 0, payload |-> Malformed, arrivedBusy |-> FALSE,
      admitted |-> FALSE, rejected |-> FALSE,
      sensor_data |-> None, timestamp |-> None, video_path |-> None,
      frame_path |-> None, ai_result |-> None, db_data |-> None,
      raised |-> FALSE, wake |-> 0,
      captureCalls |-> 0, extractCalls |-> 0, detectCalls |-> 0, saveCalls |-> 0,
      rowsWritten |-> 0, notifyCalls |-> 0, notifyFailed |-> FALSE, sleeps |-> 0, sleepStart |-> None,
      releases |-> 0, releasedAt |-> None,
      stages |-> <<>> ]

\* Between setting the lock and releasing it.
InRun(t) == pc[t] \in {"parse", "record", "extract", "detect", "build", "save",
                       "notify", "finally", "sleep"}

ActiveRuns == {t \in workers : InRun(t)}

InitWith(W) ==
    /\ mainpc = "load_model"
    /\ model = "none"
    /\ db_init = "none"
    /\ subscribed = FALSE
    /\ connack = FALSE
    /\ is_processing = FALSE
    /\ inbox = <<>>
    /\ published = 0
    /\ workers = W
    /\ pc = [t \in Threads |-> "idle"]
    /\ run = [t \in Threads |-> NoRun]
    /\ captures = <<>>
    /\ files = {}
    /\ now = 0
    /\ persisted = 0
    /\ listing = None
    /\ det_in = <<>>
    /\ det_out = None

\* The program as it runs: loop_forever calls on_message on the one network thread.
Init == InitWith({LoopThread})

\* Callbacks delivered on two threads (a transport that does not serialise them).
InitConcurrent == InitWith(Threads)

Goto(t, l) == pc' = [pc EXCEPT ![t] = l]
Locals(t, r) == run' = [run EXCEPT ![t] = r]

-----------------------------------------------------------------------------
(* __main__ *)

mainVars == <<mainpc, model, db_init, subscribed, connack>>
storeVars == <<captures, files>>
detVars == <<det_in, det_out>>

\* model = YOLO(MODEL_FILE): an exception leaves the try block of __main__.
LoadModel ==
    /\ mainpc = "load_model"
    /\ \E ok \in BOOLEAN :
          IF ok
          THEN model' = "loaded" /\ mainpc' = "init_db"
          ELSE model' = "none" /\ mainpc' = "exited"
    /\ UNCHANGED <<db_init, subscribed, connack, is_processing, inbox, published, workers,
                   pc, run, storeVars, now, detVars, persisted, listing>>

\* init_db(): its own try/except prints the error and returns normally.
init_db ==
    /\ mainpc = "init_db"
    /\ \E ok \in BOOLEAN : db_init' = IF ok THEN "ok" ELSE "failed"
    /\ mainpc' = "connect"
    /\ UNCHANGED <<model, subscribed, connack, is_processing, inbox, published, workers,
                   pc, run, storeVars, now, detVars, persisted, listing>>

\* mqtt.Client(...), client.connect(...): an exception leaves the try block.
Connect ==
    /\ mainpc = "connect"
    /\ \E ok \in BOOLEAN : mainpc' = IF ok THEN "loop" ELSE "exited"
    /\ UNCHANGED <<model, db_init, subscribed, connack, is_processing, inbox, published,
                   workers, pc, run, storeVars, now, detVars, persisted, listing>>

\* on_connect: subscribes only when the broker accepted the connection.
on_connect ==
    /\ mainpc = "loop"
    /\ ~connack
    /\ connack' = TRUE
    /\ \E rc \in {0, 5} : subscribed' = (rc = 0)
    /\ UNCHANGED <<mainpc, model, db_init, is_processing, inbox, published, workers,
                   pc, run, storeVars, now, detVars, persisted, listing>>

-----------------------------------------------------------------------------
(* The message loop *)

\* A sensor publishes a trigger: the broker forwards it to the subscribed client,
\* where it waits until the loop reads it.
Publish ==
    /\ subscribed
    /\ published < MaxTriggers
    /\ \E p \in Payloads :
          inbox' = Append(inbox, [id |-> published + 1, payload |-> p,
                                  arrivedBusy |-> ActiveRuns # {}])
    /\ published' = published + 1
    /\ UNCHANGED <<mainVars, is_processing, workers, pc, run, storeVars, now, detVars, persisted, listing>>

\* loop_forever reads the next message and calls on_message with it; the thread
\* is inside on_message until it returns.
Deliver(t) ==
    /\ mainpc = "loop"
    /\ t \in workers
    /\ pc[t] = "idle"
    /\ inbox # <<>>
    /\ inbox' = Tail(inbox)
    /\ Locals(t, [NoRun EXCEPT !.trig = Head(inbox).id, !.payload = Head(inbox).payload,
                               !.arrivedBusy = Head(inbox).arrivedBusy])
    /\ Goto(t, "check")
    /\ UNCHANGED <<mainVars, is_processing, published, workers, storeVars, now, detVars, persisted, listing>>

-----------------------------------------------------------------------------
(* on_message *)

\* Variant: the flag is not consulted.
CheckLockIgnoresFlag(t) ==
    /\ pc[t] = "check"
    /\ Goto(t, "set")
    /\ UNCHANGED <<mainVars, is_processing, inbox, published, workers, run, storeVars,
                   now, detVars, persisted, listing>>

\* if is_processing: return
CheckLock(t) ==
    /\ pc[t] = "check"
    /\ IF is_processing
       THEN /\ Goto(t, "done")
            /\ Locals(t, [run[t] EXCEPT !.rejected = TRUE])
       ELSE /\ Goto(t, "set")
            /\ UNCHANGED run
    /\ UNCHANGED <<mainVars, is_processing, inbox, published, workers, storeVars,
                   now, detVars, persisted, listing>>

\* is_processing = True
SetLock(t) ==
    /\ pc[t] = "set"
    /\ is_processing' = TRUE
    /\ Locals(t, [run[t] EXCEPT !.admitted = TRUE])
    /\ Goto(t, "parse")
    /\ UNCHANGED <<mainVars, inbox, published, workers, storeVars, now, detVars, persisted, listing>>

\* Variant: the exception of a payload that does not parse leaves on_message
\* without passing through the finally block.
ParseEscapes(t) ==
    /\ pc[t] = "parse"
    /\ IF run[t].payload.parses
       THEN /\ Locals(t, [run[t] EXCEPT
                   !.sensor_data = Some([is_object |-> run[t].payload.is_object,
                                         fields |-> run[t].payload.fields]),
                   !.timestamp = Some(strftime(now))])
            /\ Goto(t, "record")
       ELSE /\ Locals(t, NoRun)
            /\ Goto(t, "idle")
    /\ UNCHANGED <<mainVars, is_processing, inbox, published, workers, storeVars, now,
                   detVars, persisted, listing>>

\* payload = msg.payload.decode('utf-8'); sensor_data = json.loads(payload);
\* timestamp = datetime.now().strftime(...)
Parse(t) ==
    /\ pc[t] = "parse"
    /\ IF run[t].payload.parses
       THEN /\ Locals(t, [run[t] EXCEPT
                   !.sensor_data = Some([is_object |-> run[t].payload.is_object,
                                         fields |-> run[t].payload.fields]),
                   !.timestamp = Some(strftime(now))])
            /\ Goto(t, "record")
       ELSE /\ Locals(t, [run[t] EXCEPT !.raised = TRUE])
            /\ Goto(t, "finally")
    /\ UNCHANGED <<mainVars, is_processing, inbox, published, workers, storeVars, now,
                   detVars, persisted, listing>>

\* os.path.join(CAPTURE_DIR, f"vid_{timestamp}.<ext>"), os.path.join(CAPTURE_DIR,
\* f"frame_{timestamp}.jpg"): directory, prefix, identifier, extension.
VideoPath(ts, ext) == <<CAPTURE_DIR, "vid", ts, ext>>
FramePath(ts) == <<CAPTURE_DIR, "frame", ts, "jpg">>

\* os.path.basename
Basename(path) == Tail(path)

\* The identifier in the name of an artifact.
StampOf(path) == path[3]

\* video_path = record_video(video_filename_base); if not video_path: return
record_video(t) ==
    /\ pc[t] = "record"
    /\ \E outcome \in {"ok", "record_failed", "convert_failed", "raised"} :
          LET ts == The(run[t].timestamp)
              r  == [run[t] EXCEPT !.captureCalls = @ + 1, !.stages = Append(@, "capture")]
              secs == VIDEO_DURATION_MS \div 1000
          IN  CASE outcome = "ok" ->
                     /\ Locals(t, [r EXCEPT !.video_path = Some(VideoPath(ts, "mp4"))])
                     /\ files' = files \cup {VideoPath(ts, "mp4")}
                     /\ now' = now + secs
                     /\ Goto(t, "extract")
                [] outcome = "convert_failed" ->
                     /\ Locals(t, r)
                     /\ files' = files \cup {VideoPath(ts, "h264")}
                     /\ now' = now + secs
                     /\ Goto(t, "finally")
                [] outcome = "record_failed" ->
                     /\ Locals(t, r)
                     /\ UNCHANGED <<files, now>>
                     /\ Goto(t, "finally")
                [] outcome = "raised" ->
                     /\ Locals(t, [r EXCEPT !.raised = TRUE])
                     /\ UNCHANGED <<files, now>>
                     /\ Goto(t, "finally")
    /\ UNCHANGED <<mainVars, is_processing, inbox, published, workers, captures,
                   detVars, persisted, listing>>

\* Variant: the run goes on to classify after a failed extraction.
extract_frame_NoReturn(t) ==
    /\ pc[t] = "extract"
    /\ \E ok \in BOOLEAN :
          LET r == [run[t] EXCEPT !.extractCalls = @ + 1, !.stages = Append(@, "extract")]
          IN  IF ok
              THEN /\ Locals(t, [r EXCEPT !.frame_path = Some(FramePath(The(run[t].timestamp)))])
                   /\ files' = files \cup {FramePath(The(run[t].timestamp))}
              ELSE /\ Locals(t, r)
                   /\ UNCHANGED files
    /\ Goto(t, "detect")
    /\ UNCHANGED <<mainVars, is_processing, inbox, published, workers, captures,
                   now, detVars, persisted, listing>>

\* if not extract_frame(video_path, frame_path): return
extract_frame(t) ==
    /\ pc[t] = "extract"
    /\ \E ok \in BOOLEAN :
          LET r == [run[t] EXCEPT !.extractCalls = @ + 1, !.stages = Append(@, "extract")]
          IN  IF ok
              THEN /\ Locals(t, [r EXCEPT !.frame_path = Some(FramePath(The(run[t].timestamp)))])
                   /\ files' = files \cup {FramePath(The(run[t].timestamp))}
                   /\ Goto(t, "detect")
              ELSE /\ Locals(t, r)
                   /\ UNCHANGED files
                   /\ Goto(t, "finally")
    /\ UNCHANGED <<mainVars, is_processing, inbox, published, workers, captures,
                   now, detVars, persisted, listing>>

\* Variant: an exception of the model call leaves on_message without passing
\* through the finally block.
DetectEscapes(t) ==
    /\ pc[t] = "detect"
    /\ LET r == [run[t] EXCEPT !.detectCalls = @ + 1, !.stages = Append(@, "classify")]
       IN  \/ \E boxes \in Frames :
                 /\ Locals(t, [r EXCEPT !.ai_result = Some(run_animal_detection(boxes))])
                 /\ Goto(t, "build")
           \/ /\ Locals(t, [r EXCEPT !.raised = TRUE])
              /\ Goto(t, "done")
    /\ UNCHANGED <<mainVars, is_processing, inbox, published, workers, storeVars, now, detVars, persisted, listing>>

\* ai_result = run_animal_detection(frame_path): the model call may raise.
Detect(t) ==
    /\ pc[t] = "detect"
    /\ LET r == [run[t] EXCEPT !.detectCalls = @ + 1, !.stages = Append(@, "classify")]
       IN  \/ \E boxes \in Frames :
                 /\ Locals(t, [r EXCEPT !.ai_result = Some(run_animal_detection(boxes))])
                 /\ Goto(t, "build")
           \/ /\ Locals(t, [r EXCEPT !.raised = TRUE])
              /\ Goto(t, "finally")
    /\ UNCHANGED <<mainVars, is_processing, inbox, published, workers, storeVars, now, detVars, persisted, listing>>

\* Variant: the row carries the time sampled at trigger receipt.
BuildRow_TriggerTime(t) ==
    /\ pc[t] = "build"
    /\ LET sd == The(run[t].sensor_data)
           ai == The(run[t].ai_result)
       IN  IF sd.is_object
           THEN /\ Locals(t, [run[t] EXCEPT !.db_data = Some(
                       [ timestamp |-> The(run[t].timestamp),
                         classification |-> ai.class,
                         confidence |-> ai.confidence,
                         video_path |-> run[t].video_path,
                         temp |-> Get(sd.fields, "temp"),
                         humidity |-> Get(sd.fields, "humidity"),
                         battery |-> Get(sd.fields, "battery"),
                         light_state |-> Get(sd.fields, "light_state") ])])
                /\ Goto(t, "save")
           ELSE /\ Locals(t, [run[t] EXCEPT !.raised = TRUE])
                /\ Goto(t, "finally")
    /\ UNCHANGED <<mainVars, is_processing, inbox, published, workers, storeVars, now, detVars, persisted, listing>>

\* db_data = {...}: sensor_data.get raises AttributeError unless json.loads gave a dict.
BuildRow(t) ==
    /\ pc[t] = "build"
    /\ LET sd == The(run[t].sensor_data)
           ai == The(run[t].ai_result)
       IN  IF sd.is_object
           THEN /\ Locals(t, [run[t] EXCEPT !.db_data = Some(
                       [ timestamp |-> strftime(now),
                         classification |-> ai.class,
                         confidence |-> ai.confidence,
                         video_path |-> run[t].video_path,
                         temp |-> Get(sd.fields, "temp"),
                         humidity |-> Get(sd.fields, "humidity"),
                         battery |-> Get(sd.fields, "battery"),
                         light_state |-> Get(sd.fields, "light_state") ])])
                /\ Goto(t, "save")
           ELSE /\ Locals(t, [run[t] EXCEPT !.raised = TRUE])
                /\ Goto(t, "finally")
    /\ UNCHANGED <<mainVars, is_processing, inbox, published, workers, storeVars, now, detVars, persisted, listing>>

\* Variant: the exception of a failed INSERT reaches on_message.
save_to_db_Raises(t) ==
    /\ pc[t] = "save"
    /\ \E ok \in BOOLEAN :
          LET d == The(run[t].db_data)
              r == [run[t] EXCEPT !.saveCalls = @ + 1, !.stages = Append(@, "persist")]
          IN  IF ok
              THEN /\ captures' = Append(captures,
                         [ id |-> Len(captures) + 1,
                           timestamp |-> d.timestamp,
                           classification |-> d.classification,
                           confidence |-> d.confidence,
                           video_path |-> d.video_path,
                           temp |-> d.temp,
                           humidity |-> d.humidity,
                           battery |-> d.battery,
                           light_state |-> d.light_state ])
                   /\ Locals(t, [r EXCEPT !.rowsWritten = @ + 1])
                   /\ Goto(t, "notify")
              ELSE /\ UNCHANGED captures
                   /\ Locals(t, [r EXCEPT !.raised = TRUE])
                   /\ Goto(t, "finally")
    /\ persisted' = persisted + 1
    /\ UNCHANGED <<mainVars, is_processing, inbox, published, workers, files, now,
                   listing, detVars>>

\* Variant: the row replaces the content of the table (INSERT OR REPLACE on a
\* fixed id).
save_to_db_Replace(t) ==
    /\ pc[t] = "save"
    /\ \E ok \in BOOLEAN :
          LET d == The(run[t].db_data)
              r == [run[t] EXCEPT !.saveCalls = @ + 1, !.stages = Append(@, "persist")]
          IN  IF ok
              THEN /\ captures' = Append(<<>>,
                         [ id |-> 1,
                           timestamp |-> d.timestamp,
                           classification |-> d.classification,
                           confidence |-> d.confidence,
                           video_path |-> d.video_path,
                           temp |-> d.temp,
                           humidity |-> d.humidity,
                           battery |-> d.battery,
                           light_state |-> d.light_state ])
                   /\ Locals(t, [r EXCEPT !.rowsWritten = @ + 1])
              ELSE /\ UNCHANGED captures
                   /\ Locals(t, r)
    /\ persisted' = persisted + 1
    /\ Goto(t, "notify")
    /\ UNCHANGED <<mainVars, is_processing, inbox, published, workers, files, now,
                   listing, detVars>>

\* save_to_db(db_data): INSERT and commit; any exception is printed and swallowed.
save_to_db(t) ==
    /\ pc[t] = "save"
    /\ \E ok \in BOOLEAN :
          LET d == The(run[t].db_data)
              r == [run[t] EXCEPT !.saveCalls = @ + 1, !.stages = Append(@, "persist")]
          IN  IF ok
              THEN /\ captures' = Append(captures,
                         [ id |-> Len(captures) + 1,
                           timestamp |-> d.timestamp,
                           classification |-> d.classification,
                           confidence |-> d.confidence,
                           video_path |-> d.video_path,
                           temp |-> d.temp,
                           humidity |-> d.humidity,
                           battery |-> d.battery,
                           light_state |-> d.light_state ])
                   /\ Locals(t, [r EXCEPT !.rowsWritten = @ + 1])
              ELSE /\ UNCHANGED captures
                   /\ Locals(t, r)
    /\ persisted' = persisted + 1
    /\ Goto(t, "notify")
    /\ UNCHANGED <<mainVars, is_processing, inbox, published, workers, files, now,
                   listing, detVars>>

\* Variant: the exception of a failed post reaches on_message.
NotifyPropagates(t) ==
    /\ pc[t] = "notify"
    /\ LET ai == The(run[t].ai_result)
       IN  IF ai.is_animal
           THEN \E ok \in BOOLEAN :
                   Locals(t, [run[t] EXCEPT !.notifyCalls = @ + 1,
                                            !.notifyFailed = ~ok,
                                            !.raised = ~ok,
                                            !.stages = Append(@, "notify")])
           ELSE UNCHANGED run
    /\ Goto(t, "finally")
    /\ UNCHANGED <<mainVars, is_processing, inbox, published, workers, captures, files,
                   now, detVars, persisted, listing>>

\* if ai_result["is_animal"]: send_notification(ai_result, frame_path)
\* send_notification swallows every exception of the post.
Notify(t) ==
    /\ pc[t] = "notify"
    /\ LET ai == The(run[t].ai_result)
       IN  IF ai.is_animal
           THEN \E ok \in BOOLEAN :
                   Locals(t, [run[t] EXCEPT !.notifyCalls = @ + 1,
                                            !.notifyFailed = ~ok,
                                            !.stages = Append(@, "notify")])
           ELSE UNCHANGED run
    /\ Goto(t, "finally")
    /\ UNCHANGED <<mainVars, is_processing, inbox, published, workers, captures, files,
                   now, detVars, persisted, listing>>

\* finally: time.sleep(10) begins
Cooldown(t) ==
    /\ pc[t] = "finally"
    /\ Locals(t, [run[t] EXCEPT !.sleeps = @ + 1,
                                !.sleepStart = Some(now),
                                !.wake = now + COOLDOWN_S,
                                !.stages = Append(@, "cooldown")])
    /\ Goto(t, "sleep")
    /\ UNCHANGED <<mainVars, is_processing, inbox, published, workers, storeVars, now, detVars, persisted, listing>>

\* Time passes while some thread sleeps, up to the next wake-up.
Sleepers == {t \in workers : pc[t] = "sleep" /\ now < run[t].wake}

Tick ==
    /\ Sleepers # {}
    /\ \E t \in Sleepers :
          /\ \A u \in Sleepers : run[t].wake <= run[u].wake
          /\ now' = run[t].wake
    /\ UNCHANGED <<mainVars, is_processing, inbox, published, workers, pc, run,
                   storeVars, detVars, persisted, listing>>

\* Variant: the flag is cleared without waiting for the sleep to end.
ReleaseNoWait(t) ==
    /\ pc[t] = "sleep"
    /\ is_processing' = FALSE
    /\ Locals(t, [run[t] EXCEPT !.releases = @ + 1, !.releasedAt = Some(now),
                                !.stages = Append(@, "release")])
    /\ Goto(t, "done")
    /\ UNCHANGED <<mainVars, inbox, published, workers, storeVars, now, detVars, persisted, listing>>

\* time.sleep(10) has returned: is_processing = False
Release(t) ==
    /\ pc[t] = "sleep"
    /\ now >= run[t].wake
    /\ is_processing' = FALSE
    /\ Locals(t, [run[t] EXCEPT !.releases = @ + 1, !.releasedAt = Some(now),
                                !.stages = Append(@, "release")])
    /\ Goto(t, "done")
    /\ UNCHANGED <<mainVars, inbox, published, workers, storeVars, now, detVars, persisted, listing>>

\* on_message returns to the loop.
Return(t) ==
    /\ pc[t] = "done"
    /\ Locals(t, NoRun)
    /\ Goto(t, "idle")
    /\ UNCHANGED <<mainVars, is_processing, inbox, published, workers, storeVars, now, detVars, persisted, listing>>

on_message(t) ==
    \/ CheckLock(t)
    \/ SetLock(t)
    \/ Parse(t)
    \/ record_video(t)
    \/ extract_frame(t)
    \/ Detect(t)
    \/ BuildRow(t)
    \/ save_to_db(t)
    \/ Notify(t)
    \/ Cooldown(t)
    \/ Release(t)
    \/ Return(t)

Next ==
    \/ LoadModel
    \/ init_db
    \/ Connect
    \/ on_connect
    \/ Publish
    \/ Tick
    \/ \E t \in Threads : Deliver(t)
    \/ \E t \in Threads : on_message(t)

Spec == Init /\ [][Next]_vars

SpecConcurrent == InitConcurrent /\ [][Next]_vars

-----------------------------------------------------------------------------
(* run_animal_detection on its own: every list of boxes up to MaxDets *)

InitDetect ==
    /\ mainpc = "load_model"
    /\ model = "none"
    /\ db_init = "none"
    /\ subscribed = FALSE
    /\ connack = FALSE
    /\ is_processing = FALSE
    /\ inbox = <<>>
    /\ published = 0
    /\ workers = {LoopThread}
    /\ pc = [t \in Threads |-> "idle"]
    /\ run = [t \in Threads |-> NoRun]
    /\ captures = <<>>
    /\ files = {}
    /\ now = 0
    /\ persisted = 0
    /\ listing = None
    /\ det_in \in DetLists
    /\ det_out = None

DetectAlone ==
    /\ det_out = None
    /\ det_out' = Some(run_animal_detection(det_in))
    /\ UNCHANGED <<mainVars, is_processing, inbox, published, workers, pc, run,
                   storeVars, now, persisted, listing, det_in>>

SpecDetect == InitDetect /\ [][DetectAlone]_vars

-----------------------------------------------------------------------------
(* The message loop under fair scheduling: loop_forever keeps reading the     *)
(* socket, every call made by on_message returns, and time passes while the   *)
(* thread sleeps.                                                             *)

SpecLive ==
    /\ Init
    /\ [][Next]_vars
    /\ WF_vars(Tick)
    /\ WF_vars(Deliver(LoopThread))
    /\ WF_vars(on_message(LoopThread))

-----------------------------------------------------------------------------
(* The web dashboard (web_dashboard.py), a process of its own on the same     *)
(* database file.                                                             *)

\* ORDER BY id DESC, as a sort of the rows on their id, greatest first.
RECURSIVE InsertById(_, _)
InsertById(row, sorted) ==
    IF sorted = <<>> THEN <<row>>
    ELSE IF row.id > Head(sorted).id THEN <<row>> \o sorted
    ELSE <<Head(sorted)>> \o InsertById(row, Tail(sorted))

RECURSIVE OrderByIdDesc(_)
OrderByIdDesc(rows) ==
    IF rows = <<>> THEN <<>>
    ELSE InsertById(Head(rows), OrderByIdDesc(Tail(rows)))

\* row = dict(cap); if row['video_path']: row['web_video_path'] = basename(...)
Processed(cap) ==
    IF cap.video_path # None
    THEN [k \in DOMAIN cap \cup {"web_video_path"} |->
             IF k = "web_video_path" THEN Basename(The(cap.video_path)) ELSE cap[k]]
    ELSE cap

\* Variant: the query leaves out the rows classified "False Positive".
index_HideFalsePositives ==
    /\ \E ok \in BOOLEAN :
          listing' =
             IF ok
             THEN LET rows == SelectSeq(OrderByIdDesc(captures),
                                        LAMBDA r : r.classification # "False Positive")
                  IN  Some([ page |-> "index.html",
                             captures |-> [i \in 1..Len(rows) |-> Processed(rows[i])] ])
             ELSE Some([ page |-> "error" ])
    /\ UNCHANGED <<mainVars, is_processing, inbox, published, workers, pc, run,
                   storeVars, now, detVars, persisted>>

\* index(): SELECT * FROM captures ORDER BY id DESC, every row processed and
\* handed to the template; any exception gives the error text instead.
index ==
    /\ \E ok \in BOOLEAN :
          listing' =
             IF ok
             THEN LET rows == OrderByIdDesc(captures)
                  IN  Some([ page |-> "index.html",
                             captures |-> [i \in 1..Len(rows) |-> Processed(rows[i])] ])
             ELSE Some([ page |-> "error" ])
    /\ UNCHANGED <<mainVars, is_processing, inbox, published, workers, pc, run,
                   storeVars, now, detVars, persisted>>

SpecViewer == Init /\ [][Next \/ index]_vars

-----------------------------------------------------------------------------
(* Properties *)

\* The invocation of thread t has left the try block (finally reached or passed).
Concluded(t) == pc[t] \in {"finally", "sleep"} \/ (pc[t] = "done" /\ run[t].admitted)

\* An invocation that returned through the BUSY branch did nothing.
RejectedUntouched(t) ==
    run[t].rejected =>
        /\ pc[t] = "done"
        /\ ~run[t].admitted
        /\ run[t].captureCalls = 0 /\ run[t].extractCalls = 0
        /\ run[t].detectCalls = 0 /\ run[t].saveCalls = 0
        /\ run[t].rowsWritten = 0 /\ run[t].notifyCalls = 0
        /\ run[t].sleeps = 0 /\ run[t].releases = 0

\* The step in which the invocation of thread t passes the gate.
GateStep(t) ==
    (pc[t] = "check" /\ pc'[t] # "check") =>
        IF is_processing
        THEN /\ pc'[t] = "done" /\ run'[t].rejected
             /\ is_processing'
             /\ UNCHANGED <<captures, files, now, inbox>>
        ELSE pc'[t] = "set" /\ ~run'[t].rejected

CaptureFailed(t) == run[t].captureCalls = 1 /\ pc[t] # "record" /\ run[t].video_path = None
ExtractFailed(t) == run[t].extractCalls = 1 /\ pc[t] # "extract" /\ run[t].frame_path = None

StartupFailed == db_init = "failed" \/ (mainpc = "exited" /\ model = "none")

Max(S) == CHOOSE x \in S : \A y \in S : y <= x
Min(S) == CHOOSE x \in S : \A y \in S : x <= y

\* The best detection among the boxes whose indices are in `among`: the greatest
\* confidence, the first box reaching it; the default when there is none.
Expected(boxes, among) ==
    IF among = {} THEN [is_animal |-> FALSE, class |-> "False Positive", confidence |-> 0]
    ELSE LET best  == Max({boxes[i].conf : i \in among})
             first == Min({i \in among : boxes[i].conf = best})
         IN  [is_animal |-> TRUE, class |-> Capitalize(boxes[first].label),
              confidence |-> best]

AnimalBoxes(boxes) == {i \in 1..Len(boxes) : boxes[i].label \in ANIMAL_CLASSES}

\* C1: at most one pipeline run is active at any instant, also when two
\* on_message invocations overlap in time.
C1_MutualExclusion == Cardinality(ActiveRuns) <= 1

\* C2: a payload that cannot be decoded or parsed never sets is_processing and
\* never executes the cooldown wait.
C2_MalformedNeverEngages ==
    \A t \in workers :
        (run[t].trig # 0 /\ ~run[t].payload.parses)
            => (~run[t].admitted /\ run[t].sleeps = 0)

\* C3: an on_message invocation that finds is_processing true returns with no
\* effect (the flag stays true, nothing is captured, extracted, classified,
\* written or notified, no cooldown starts), and one that finds it false goes on
\* to admission.
C3_BusyRejects ==
    /\ [](\A t \in Threads : RejectedUntouched(t))
    /\ [][\A t \in Threads : GateStep(t)]_vars

\* C3 witness: an invocation was rejected while another run holds the gate.
C3_Witness ==
    \E t \in workers, u \in workers :
        /\ run[t].rejected /\ pc[t] = "done"
        /\ is_processing /\ InRun(u)

\* C4: a trigger that arrives while a run is active never causes a pipeline
\* run, neither at arrival nor later: no video is ever recorded for it.
C4_BusyArrivalNeverRuns ==
    \A t \in workers : run[t].arrivedBusy => run[t].captureCalls = 0

\* C5: for every admitted trigger the gate is released exactly once, and only
\* after the cooldown wait of that run has completed, on every path of the run;
\* the gate is never Idle between the admission and the end of the cooldown.
C5_ReleaseOnceAfterCooldown ==
    \A t \in workers :
        /\ InRun(t) => (is_processing /\ run[t].releases = 0 /\ run[t].sleeps <= 1)
        /\ (pc[t] = "done" /\ run[t].admitted) =>
              /\ run[t].releases = 1
              /\ run[t].sleeps = 1
              /\ The(run[t].releasedAt) >= The(run[t].sleepStart) + COOLDOWN_S

\* C5 witness: a run that ended in an exception has cooled down and released.
C5_Witness ==
    \E t \in workers :
        /\ pc[t] = "done" /\ run[t].admitted /\ run[t].raised
        /\ run[t].releases = 1 /\ ~is_processing

\* C6: a run that succeeds through classify, for an admitted trigger with a
\* parseable payload, writes exactly one row.
C6_ExactlyOneRow ==
    \A t \in workers :
        (Concluded(t) /\ run[t].ai_result # None) => run[t].rowsWritten = 1

\* C7: a run whose capture stage or extract stage fails writes no row, never
\* invokes the classifier or the notifier, and still cools down and releases.
C7_FailedRunWritesNothing ==
    \A t \in workers :
        (CaptureFailed(t) \/ ExtractFailed(t)) =>
            /\ run[t].rowsWritten = 0 /\ run[t].saveCalls = 0
            /\ run[t].detectCalls = 0 /\ run[t].notifyCalls = 0
            /\ pc[t] \in {"finally", "sleep", "done"}
            /\ (pc[t] \in {"sleep", "done"} => run[t].sleeps = 1)
            /\ (pc[t] = "done" => run[t].releases = 1)

\* C7 witness: a run whose extraction failed after a successful capture has
\* released the gate.
C7_Witness ==
    \E t \in workers :
        /\ ExtractFailed(t) /\ run[t].video_path # None
        /\ pc[t] = "done" /\ run[t].releases = 1

\* C8: in every run the notifier is invoked if and only if the classification
\* result of the run has is_animal true, and at most once.
C8_NotifyIffAnimal ==
    \A t \in workers :
        /\ run[t].notifyCalls <= 1
        /\ Concluded(t) =>
              (run[t].notifyCalls = 1
                  <=> (run[t].ai_result # None /\ The(run[t].ai_result).is_animal))

\* C9 as stated: is_animal iff some detection is in the animal set, then the
\* maximum confidence among those and the label of the first one reaching it;
\* the default when no detection is in the animal set.
C9_BestOfAnimals ==
    det_out # None => The(det_out) = Expected(det_in, AnimalBoxes(det_in))

\* C9 amended: the same, over the detections of the animal set whose confidence
\* is greater than 0.
C9_BestOfPositiveAnimals ==
    det_out # None =>
        The(det_out) =
            Expected(det_in, {i \in AnimalBoxes(det_in) : det_in[i].conf > 0})

\* C9 witness: a non-animal of the highest confidence, then two animals tied at
\* a positive confidence.
C9_Witness ==
    /\ det_out # None
    /\ Len(det_in) = 3
    /\ det_in[1] = Box("person", MaxConf)
    /\ det_in[2].label = "dog" /\ det_in[3].label = "cat"
    /\ det_in[2].conf = det_in[3].conf /\ det_in[2].conf > 0

\* C10: when init_db fails or the model fails to load, the worker loop is never
\* started: no subscription, no admitted trigger.
C10_StartupFatal ==
    StartupFailed =>
        /\ mainpc # "loop"
        /\ ~subscribed
        /\ \A t \in workers : ~run[t].admitted

\* C11: no failure of a run ends the worker loop: once the loop is running it
\* keeps running, a gate that is Busy eventually becomes Idle again, and every
\* trigger waiting at the loop is eventually admitted, whatever the runs before
\* it did.
C11_LoopSurvivesFailure ==
    /\ [][mainpc = "loop" => mainpc' = "loop"]_vars
    /\ (is_processing ~> ~is_processing)
    /\ \A k \in 1..MaxTriggers :
          (\E i \in 1..Len(inbox) : inbox[i].id = k)
              ~> (run[LoopThread].trig = k /\ run[LoopThread].admitted)

\* C11 witness: the second trigger is admitted after the run of the first one
\* failed without producing anything.
C11_Witness ==
    /\ run[LoopThread].trig = 2 /\ run[LoopThread].admitted
    /\ files = {} /\ persisted = 0

\* The page returned by index() lists the table `rows` in full, by id descending.
ListsAll(resp, rows) ==
    LET shown == resp.captures
    IN  /\ Len(shown) = Len(rows)
        /\ \A i \in 1..Len(rows) : \E j \in 1..Len(shown) :
              \A k \in DOMAIN rows[i] : shown[j][k] = rows[i][k]
        /\ \A j \in 1..Len(shown) - 1 : shown[j].id > shown[j + 1].id

\* C12: whenever index() renders its page, the listing holds every row of the
\* captures table, "False Positive" rows included, strictly ordered by id
\* descending, and the call leaves the table and the files as they were.
C12_ListsEveryRow ==
    [][listing' # listing =>
          /\ UNCHANGED <<captures, files>>
          /\ The(listing').page = "index.html" => ListsAll(The(listing'), captures)]_vars

\* C12 witness: a page listing two rows, the newer one first, one of them a
\* "False Positive".
C12_Witness ==
    /\ listing # None
    /\ The(listing).page = "index.html"
    /\ Len(The(listing).captures) = 2
    /\ The(listing).captures[1].id = 2
    /\ \E j \in 1..2 : The(listing).captures[j].classification = "False Positive"

\* The stages of a run, in the order of the pipeline.
StageOrder == <<"capture", "extract", "classify", "persist", "notify", "cooldown", "release">>

Rank(stage) == CHOOSE i \in 1..Len(StageOrder) : StageOrder[i] = stage

Ran(t, stage) == \E i \in 1..Len(run[t].stages) : run[t].stages[i] = stage

\* The stages run so far follow the order of the pipeline, none of them twice.
InStageOrder(t) ==
    \A i, j \in 1..Len(run[t].stages) :
        i < j => Rank(run[t].stages[i]) < Rank(run[t].stages[j])

\* C13: in every admitted run the stages executed follow the order capture,
\* extract, classify, persist, notify, cooldown, release with none repeated, and
\* a stage is left out only when an earlier stage of the run failed, or, for
\* notify, when is_animal is false.
C13_StagesInOrder ==
    \A t \in workers :
        /\ InStageOrder(t)
        /\ (run[t].admitted /\ Concluded(t)) =>
              /\ Ran(t, "capture")
              /\ ~Ran(t, "extract") => run[t].video_path = None
              /\ (Ran(t, "extract") /\ ~Ran(t, "classify")) => run[t].frame_path = None
              /\ (Ran(t, "classify") /\ ~Ran(t, "persist")) => run[t].ai_result = None
              /\ (Ran(t, "persist") /\ ~Ran(t, "notify")) =>
                    ~The(run[t].ai_result).is_animal
              /\ pc[t] \in {"sleep", "done"} => Ran(t, "cooldown")
              /\ pc[t] = "done" => Ran(t, "release")

\* The INSERT of the run of thread t failed inside save_to_db.
PersistFailed(t) == run[t].saveCalls = 1 /\ run[t].rowsWritten = 0 /\ pc[t] # "save"

\* C14: in a run whose classification has is_animal true and whose INSERT
\* fails, the notifier is still invoked once the run leaves the try block, no
\* exception is recorded for the run, and the run cools down and releases.
C14_PersistFailureStillNotifies ==
    \A t \in workers :
        (PersistFailed(t) /\ The(run[t].ai_result).is_animal) =>
            /\ ~run[t].raised
            /\ pc[t] \in {"notify", "finally", "sleep", "done"}
            /\ pc[t] # "notify" => run[t].notifyCalls = 1
            /\ pc[t] \in {"sleep", "done"} => run[t].sleeps = 1
            /\ pc[t] = "done" => run[t].releases = 1

\* C14 witness: a run with an animal and a failed INSERT has notified and
\* released the gate.
C14_Witness ==
    \E t \in workers :
        /\ PersistFailed(t) /\ The(run[t].ai_result).is_animal
        /\ run[t].notifyCalls = 1
        /\ pc[t] = "done" /\ run[t].releases = 1

\* C15: a failed notification raises nothing in on_message, is the only attempt
\* of its run, leaves the captures table as it was, and the run cools down and
\* releases the gate.
C15_NotifyFailureSwallowed ==
    /\ [](\A t \in workers :
             /\ run[t].notifyCalls <= 1
             /\ run[t].notifyFailed =>
                   /\ ~run[t].raised
                   /\ pc[t] \in {"finally", "sleep", "done"}
                   /\ pc[t] \in {"sleep", "done"} => run[t].sleeps = 1
                   /\ pc[t] = "done" => run[t].releases = 1)
    /\ [][\A t \in workers :
             run'[t].notifyCalls # run[t].notifyCalls => captures' = captures]_vars

\* C15 witness: a run that wrote its row and whose notification failed has
\* released the gate.
C15_Witness ==
    \E t \in workers :
        /\ run[t].notifyFailed /\ run[t].rowsWritten = 1
        /\ pc[t] = "done" /\ run[t].releases = 1

\* The telemetry columns of a row are the payload's fields, None where absent.
TelemetryOf(row, payload) ==
    /\ row.temp = Get(payload.fields, "temp")
    /\ row.humidity = Get(payload.fields, "humidity")
    /\ row.battery = Get(payload.fields, "battery")
    /\ row.light_state = Get(payload.fields, "light_state")

\* C16: every admitted run whose payload parses as JSON, of whatever shape, and
\* whose capture, extract and classify succeeded hands a row to the store, and
\* the row it writes carries the payload's telemetry, None for absent fields.
C16_AnyParseablePayloadPersists ==
    \A t \in workers :
        (Concluded(t) /\ run[t].payload.parses /\ run[t].ai_result # None) =>
            /\ run[t].saveCalls = 1
            /\ run[t].db_data # None
            /\ TelemetryOf(The(run[t].db_data), run[t].payload)
            /\ run[t].rowsWritten = 1 =>
                  TelemetryOf(captures[Len(captures)], run[t].payload)

\* C17: the artifact identifier of a run is read from the clock before its
\* capture starts; the timestamp of its row is read from the clock in the step
\* that builds the row, after classify has returned, so it is never earlier
\* than the identifier; the row written carries that timestamp.
C17_RowTimestampAtCompletion ==
    /\ [](\A t \in workers :
             /\ run[t].captureCalls >= 1 => run[t].timestamp # None
             /\ run[t].db_data # None =>
                   /\ run[t].ai_result # None
                   /\ Seconds(The(run[t].db_data).timestamp)
                         >= Seconds(The(run[t].timestamp)))
    /\ [][\A t \in workers :
             /\ (run'[t].timestamp # run[t].timestamp /\ run'[t].timestamp # None) =>
                   /\ run'[t].timestamp = Some(strftime(now))
                   /\ run'[t].captureCalls = 0
             /\ (run'[t].db_data # run[t].db_data /\ run'[t].db_data # None) =>
                   /\ The(run'[t].db_data).timestamp = strftime(now)
                   /\ Ran(t, "classify")
             /\ run'[t].rowsWritten > run[t].rowsWritten =>
                   captures'[Len(captures')].timestamp = The(run[t].db_data).timestamp]_vars

\* C17 witness: a row whose timestamp is later than the instant of the
\* identifier in its video_path.
C17_Witness ==
    \E i \in 1..Len(captures) :
        Seconds(captures[i].timestamp) > Seconds(StampOf(The(captures[i].video_path)))

\* The artifacts of the run of thread t all carry the identifier of the run.
SharedIdentifier(t) ==
    LET id == The(run[t].timestamp)
    IN  /\ run[t].video_path # None =>
              /\ StampOf(The(run[t].video_path)) = id
              /\ The(run[t].video_path) \in files
        /\ run[t].frame_path # None =>
              /\ StampOf(The(run[t].frame_path)) = id
              /\ The(run[t].frame_path) \in files
        /\ run[t].db_data # None =>
              StampOf(The(The(run[t].db_data).video_path)) = id

\* C18: the video, the frame and the row's video_path of a run carry the one
\* identifier of that run, and no two distinct runs use the same identifier.
C18_UniqueIdentifiers ==
    /\ \A t \in workers : run[t].timestamp # None => SharedIdentifier(t)
    /\ \A t, u \in workers :
          (t # u /\ run[t].timestamp # None /\ run[u].timestamp # None)
              => run[t].timestamp # run[u].timestamp

\* The model call of the run of thread t raised, after capture and extract
\* succeeded.
ClassifierRaised(t) ==
    /\ run[t].detectCalls = 1 /\ pc[t] # "detect"
    /\ run[t].ai_result = None
    /\ run[t].video_path # None /\ run[t].frame_path # None

\* C19: a run whose classifier call raises writes no row and sends no
\* notification; the exception is caught inside on_message, and the run cools
\* down and releases the gate exactly once.
C19_ClassifierExceptionContained ==
    \A t \in workers :
        ClassifierRaised(t) =>
            /\ run[t].raised
            /\ run[t].saveCalls = 0 /\ run[t].rowsWritten = 0
            /\ run[t].notifyCalls = 0
            /\ pc[t] \in {"finally", "sleep", "done"}
            /\ run[t].sleeps <= 1 /\ run[t].releases <= 1
            /\ pc[t] \in {"sleep", "done"} => run[t].sleeps = 1
            /\ pc[t] = "done" => run[t].releases = 1

\* C19 witness: a run whose classifier call raised has returned with the gate
\* released.
C19_Witness ==
    \E t \in workers :
        /\ ClassifierRaised(t)
        /\ pc[t] = "done" /\ run[t].sleeps = 1 /\ run[t].releases = 1

\* C20: the captures table only grows by appending: a step adds at most one
\* row and leaves the existing rows as they are, a run adds at most one row,
\* there are never more rows than calls of save_to_db, and every row's
\* video_path names an MP4 on disk that a successful capture produced.
C20_AppendOnly ==
    /\ [](/\ Len(captures) <= persisted
          /\ \A t \in workers : run[t].rowsWritten <= 1
          /\ \A i \in 1..Len(captures) :
                /\ captures[i].id = i
                /\ captures[i].video_path # None
                /\ The(captures[i].video_path) \in files
                /\ The(captures[i].video_path)[4] = "mp4")
    /\ [][\/ captures' = captures
          \/ /\ Len(captures') = Len(captures) + 1
             /\ SubSeq(captures', 1, Len(captures)) = captures
             /\ \E t \in workers : run'[t].rowsWritten = run[t].rowsWritten + 1]_vars

\* C20 witness: two runs have called save_to_db, one INSERT failed, and the
\* table holds the one row of the other.
C20_Witness ==
    /\ Len(captures) = 1
    /\ persisted = 2
    /\ \E t \in workers : pc[t] = "done" /\ run[t].saveCalls = 1

====
